---- MODULE Spec2Model ----
(***************************************************************************)
(* Slack slash-command authorization and routing pipeline:                 *)
(* handleSlashCommand of src/slack/monitor/slash.ts, one handler record    *)
(* per inbound command event.  Every await of the handler is one step.     *)
(* Collaborators whose code is not in the source tree are modelled from    *)
(* the specification text and are marked so in the model map.              *)
(***************************************************************************)
EXTENDS Naturals, Sequences, FiniteSets, TLC

----------------------------------------------------------------------------
(* Bounds of the model *)

\* number of inbound command events of the concurrent specification
NumEvents == 2
\* a dispatch produces at most MaxReplyCount replies (final, tool and block
\* replies together)
MaxReplyCount == 2

----------------------------------------------------------------------------
(* Values *)

\* JavaScript undefined / null for string-valued fields
Undefined == "undefined"

\* an optional value is a set with at most one element
None == {}
Some(x) == {x}

MsgMessageRequired == "Message required."
MsgChannelNotAllowed == "This channel is not allowed."
MsgDmDisabled == "Slack DMs are disabled."
MsgNotAuthorized == "You are not authorized to use this command."
MsgNotAuthorizedHere == "You are not authorized to use this command here."
MsgFailure == "Sorry, something went wrong handling that command."
\* text built by buildPairingReply; the code travels in the response record
MsgPairing == "pairing"
\* what deliverSlackSlashReplies sends for one reply payload / for no replies
MsgReply == "reply"
MsgEmptyResult == "empty-result"

\* the ephemeral policy rejections issued through respond
RejectionTexts ==
  {MsgChannelNotAllowed, MsgDmDisabled, MsgNotAuthorized, MsgNotAuthorizedHere}

\* collaborators that do time-consuming work
SlowCollaborators ==
  {"resolveChannelName", "isChannelAllowed", "readChannelAllowFromStore",
   "resolveUserName", "upsertChannelPairingRequest", "resolveSlackChannelConfig",
   "resolveAgentRoute", "dispatchReplyWithDispatcher"}

----------------------------------------------------------------------------
(* Inputs: the workspace the commands come from *)

UserIds == {"UBOT", "U1", "U2"}

\* command.user_name as Slack sends it
CommandUserName(u) ==
  CASE u = "U1" -> "alice"
    [] u = "U2" -> "bob"
    [] OTHER -> "bot"

\* what ctx.resolveUserName finds: sender?.name, Undefined when it returns null
UserDirectory(u) ==
  CASE u = "U1" -> "Alice"
    [] u = "UBOT" -> "Bot"
    [] OTHER -> Undefined

\* C1 public room, P1 private room, D1 direct message, G1 group DM,
\* X1 and X2 are unknown to conversations.info (resolveChannelName gives null)
ChannelIds == {"C1", "P1", "D1", "G1", "X1", "X2"}

\* command.channel_name as Slack sends it
CommandChannelName(c) ==
  CASE c = "C1" -> "general"
    [] c = "P1" -> "secret"
    [] c \in {"D1", "X1"} -> "directmessage"
    [] OTHER -> "unknown"

\* channelInfo?.type
ChannelDirectoryType(c) ==
  CASE c = "C1" -> "channel"
    [] c = "P1" -> "group"
    [] c = "D1" -> "im"
    [] c = "G1" -> "mpim"
    [] OTHER -> Undefined

\* channelInfo?.name
ChannelDirectoryName(c) ==
  CASE c = "C1" -> "general"
    [] c = "P1" -> "secret"
    [] OTHER -> Undefined

Commands ==
  { [user_id |-> u, user_name |-> CommandUserName(u),
     channel_id |-> c, channel_name |-> CommandChannelName(c)] :
      u \in UserIds, c \in ChannelIds }

\* prompts are sequences of characters; " " is white space
Prompts == { <<>>, <<" ", " ">>, <<" ", "h">> }

\* String.prototype.trim
RECURSIVE TrimLeft(_)
TrimLeft(s) ==
  IF s = <<>> THEN <<>>
  ELSE IF Head(s) = " " THEN TrimLeft(Tail(s)) ELSE s

RECURSIVE TrimRight(_)
TrimRight(s) ==
  IF s = <<>> THEN <<>>
  ELSE IF s[Len(s)] = " " THEN TrimRight(SubSeq(s, 1, Len(s) - 1)) ELSE s

\* a trim that leaves white space alone
TrimNothing(s) == s

Trim(s) == TrimRight(TrimLeft(s))

\* String.prototype.toLowerCase on the strings of the model
ToLower(s) ==
  CASE s = "Alice" -> "alice"
    [] s = "ALICE" -> "alice"
    [] s = "BOB" -> "bob"
    [] s = "Bot" -> "bot"
    [] s = "U1" -> "u1"
    [] s = "U2" -> "u2"
    [] s = "UBOT" -> "ubot"
    [] OTHER -> s

\* the elements of a sequence
Range(s) == { s[i] : i \in DOMAIN s }

----------------------------------------------------------------------------
(* Pure collaborators.  allow-list.ts, channel-config.ts, policy.ts and     *)
(* pairing-store.ts are not in the source tree: these follow the            *)
(* specification's sections 4.1 to 4.4.                                     *)

TheOne(opt) == CHOOSE x \in opt : TRUE

\* normalizeAllowList: empty entries are dropped
normalizeAllowList(list) == SelectSeq(list, LAMBDA e : e # "")

\* an allow-list entry is a user's identifier or a display name
IsIdentifier(entry) == entry \in UserIds

\* normalizeAllowListLower: identifiers are preserved, names are lower-cased
normalizeAllowListLower(list) ==
  [i \in DOMAIN normalizeAllowList(list) |->
     IF IsIdentifier(normalizeAllowList(list)[i]) THEN normalizeAllowList(list)[i]
     ELSE ToLower(normalizeAllowList(list)[i])]

\* allowListMatches: the id as given or the lower-cased name is in the list,
\* a "*" entry matches anything, an empty list matches nothing
allowListMatches(allowList, id, name) ==
  /\ allowList # <<>>
  /\ \/ "*" \in Range(allowList)
     \/ id \in Range(allowList)
     \/ name # Undefined /\ ToLower(name) \in Range(allowList)

\* resolveSlackUserAllowed: no users list configured permits everybody
resolveSlackUserAllowed(allowList, userId, userName) ==
  IF allowList = None \/ normalizeAllowListLower(TheOne(allowList)) = <<>>
  THEN TRUE
  ELSE allowListMatches(normalizeAllowListLower(TheOne(allowList)), userId, userName)

\* entries of the channels mapping
EntryDenied == [allowed |-> Some(FALSE), requireMention |-> None, users |-> None]
EntryUsers == [allowed |-> None, requireMention |-> None, users |-> Some(<<"Alice">>)]
EntryMention == [allowed |-> Some(TRUE), requireMention |-> Some(TRUE), users |-> None]
EntryNoMention == [allowed |-> None, requireMention |-> Some(FALSE), users |-> None]

EmptyMap == [k \in {} |-> EntryDenied]

\* ctx.channelsConfig: absent, empty, or a mapping keyed by id, name or "*"
ChannelsConfigs ==
  { None,
    Some(EmptyMap),
    Some(("C1" :> EntryDenied) @@ ("*" :> EntryUsers)),
    Some(("secret" :> EntryDenied) @@ ("G1" :> EntryMention)) }

\* mappings that tell the lookup steps and the defaults apart: the wildcard
\* alone, id over name over wildcard, name over wildcard, keys that name no
\* room of the workspace, an entry without a requireMention of its own
RoomChannelsConfigs ==
  { None,
    Some(EmptyMap),
    Some("*" :> EntryMention),
    Some(("C1" :> EntryNoMention) @@ ("general" :> EntryMention) @@ ("*" :> EntryDenied)),
    Some(("general" :> EntryNoMention) @@ ("secret" :> EntryDenied) @@ ("*" :> EntryMention)),
    Some(("D1" :> EntryDenied) @@ ("random" :> EntryNoMention)),
    Some(("P1" :> EntryUsers) @@ ("general" :> EntryDenied)) }

\* the entry resolveSlackChannelConfig matches: id, then name, then "*"
MatchedEntry(channelId, channelName, entries) ==
  IF channelId \in DOMAIN entries THEN Some(entries[channelId])
  ELSE IF channelName # Undefined /\ channelName \in DOMAIN entries
    THEN Some(entries[channelName])
  ELSE IF "*" \in DOMAIN entries THEN Some(entries["*"])
  ELSE None

resolveSlackChannelConfig(channelId, channelName, channels, defaultRequireMention) ==
  LET entries == IF channels = None THEN EmptyMap ELSE TheOne(channels)
      matched == MatchedEntry(channelId, channelName, entries)
  IN [ allowed |-> ~(matched # None /\ TheOne(matched).allowed = Some(FALSE)),
       requireMention |->
         IF matched # None /\ TheOne(matched).requireMention # None
         THEN TheOne(TheOne(matched).requireMention)
         ELSE IF defaultRequireMention # None THEN TheOne(defaultRequireMention)
         ELSE TRUE,
       users |-> IF matched # None THEN TheOne(matched).users ELSE None ]

\* isSlackRoomAllowedByPolicy: the Access Policy Gate
isSlackRoomAllowedByPolicy(groupPolicy, channelAllowlistConfigured, channelAllowed) ==
  CASE groupPolicy = "disabled" -> FALSE
    [] groupPolicy = "open" -> (channelAllowlistConfigured => channelAllowed)
    [] OTHER -> channelAllowlistConfigured /\ channelAllowed

\* a test of the presence of the mapping alone
ChannelAllowlistPresent(channels) == channels # None

\* Object.keys(ctx.channelsConfig ?? {}).length > 0
ChannelAllowlistConfigured(channels) ==
  channels # None /\ DOMAIN TheOne(channels) # {}

\* upsertChannelPairingRequest on a store mapping sender id to its pending
\* code (0: no pending request).  The store gives independent read and append
\* and no exclusivity: an upsert reads the sender's entry when it is called
\* and appends when it returns.  found is what it read; a request that was
\* found is returned as it is, otherwise a new code is generated.
UpsertCode(store, found) ==
  IF found # 0 THEN found
  ELSE Cardinality({u \in DOMAIN store : store[u] # 0}) + 1

UpsertCreated(found) == found = 0

----------------------------------------------------------------------------
(* State *)

VARIABLES
  ctx,          \* SlackMonitorContext: the configuration the handler closes over
  inbox,        \* the inbound command events: event -> [command, prompt]
  inv,          \* one handleSlashCommand invocation per event: position and locals
  allowStore,   \* the stored allow-from entries readChannelAllowFromStore reads
  pairingStore  \* pending pairing requests: sender id -> code, 0 when none

vars == <<ctx, inbox, inv, allowStore, pairingStore>>

Contexts ==
  [ botUserId : {"", "UBOT"},
    dmEnabled : BOOLEAN,
    dmPolicy : {"open", "pairing", "allowlist", "disabled"},
    allowFrom : { <<>>, <<"Alice">> },
    useAccessGroups : BOOLEAN,
    groupPolicy : {"open", "allowlist", "disabled"},
    channelsConfig : ChannelsConfigs,
    defaultRequireMention : {None} ]

\* what the allow-from store may hold
StoreResults == { <<>>, <<"*">> }

\* the counts a dispatch may return: at most MaxReplyCount replies in all
ReplyCounts ==
  { c \in [final : 0..MaxReplyCount, tool : 0..MaxReplyCount, block : 0..MaxReplyCount] :
      c.final + c.tool + c.block <= MaxReplyCount }

\* an invocation that has not started: no local is set
IdleHandler ==
  [ pc |-> "idle",
    ack |-> "none",
    ackPayload |-> Undefined,
    acks |-> <<>>,
    channelType |-> Undefined,
    channelName |-> Undefined,
    storeAllowFrom |-> <<>>,
    effectiveAllowFromLower |-> <<>>,
    commandAuthorized |-> TRUE,
    channelConfig |-> None,
    gate |-> None,
    rejection |-> Undefined,
    dmSenderName |-> Undefined,
    permitted |-> None,
    upsertRead |-> None,
    upsertsReturned |-> None,
    pairing |-> None,
    senderName |-> Undefined,
    route |-> None,
    ctxPayload |-> None,
    counts |-> None,
    calls |-> {},
    failed |-> {},
    responses |-> <<>> ]

Events == DOMAIN inbox

Init ==
  /\ ctx \in Contexts
  /\ inbox \in [{1} -> [command : Commands, prompt : Prompts]]
  /\ inv = [e \in {1} |-> IdleHandler]
  /\ allowStore \in StoreResults
  /\ pairingStore = [u \in UserIds |-> 0]

\* the locals' derived flags (lines 65-67)
isDirectMessage(r) == r.channelType = "im"
isGroupDm(r) == r.channelType = "mpim"
\* a room test that takes a group DM for a room
isRoomOrGroupDm(r) == r.channelType \in {"channel", "group", "mpim"}

isRoom(r) == r.channelType \in {"channel", "group"}

\* await respond({text, response_type: "ephemeral"}): the call is recorded; when
\* it rejects, control goes to onFail
Respond(r, text, code, ok, onOk, onFail) ==
  [ r EXCEPT
      !.responses = Append(@, [text |-> text, code |-> code, ok |-> ok]),
      !.calls = @ \cup {"respond"},
      !.failed = IF ok THEN @ ELSE @ \cup {"respond"},
      !.pc = IF ok THEN onOk ELSE onFail ]

\* a rejection that does not return
RejectFallsThrough(r, text, ok) == Respond(r, text, 0, ok, "route", "catch")

\* a policy rejection: respond, then return; a failing respond is caught
Reject(r, text, ok) == Respond(r, text, 0, ok, "done", "catch")

\* a check failed: respond is called with the rejection and the handler is
\* suspended at that await
Rejecting(r, text) == [ r EXCEPT !.rejection = text, !.pc = "reject" ]

\* a collaborator call that throws: control goes to the catch block
Throw(r, name) ==
  [ r EXCEPT !.calls = @ \cup {name}, !.failed = @ \cup {name}, !.pc = "catch" ]

----------------------------------------------------------------------------
(* handleSlashCommand, one action per await *)

Command(e) == inbox[e].command

\* a handler that calls ack without awaiting it
HandleSlashCommandNoAwait(e) ==
  /\ inv[e].pc = "idle"
  /\ inv' = [inv EXCEPT ![e] =
       [ @ EXCEPT
           !.pc = IF Trim(inbox[e].prompt) = <<>> THEN "done" ELSE "self",
           !.ack = "called",
           !.ackPayload =
             IF Trim(inbox[e].prompt) = <<>> THEN MsgMessageRequired ELSE Undefined,
           !.acks = Append(@,
             IF Trim(inbox[e].prompt) = <<>> THEN MsgMessageRequired ELSE Undefined),
           !.calls = @ \cup {"ack"} ]]
  /\ UNCHANGED <<ctx, inbox, allowStore, pairingStore>>

\* lines 49-58: the handler is entered, tests prompt.trim() and calls ack,
\* with the "Message required." payload for a blank prompt
HandleSlashCommand(e) ==
  /\ inv[e].pc = "idle"
  /\ inv' = [inv EXCEPT ![e] =
       [ @ EXCEPT
           !.pc = "await_ack",
           !.ack = "called",
           !.ackPayload =
             IF Trim(inbox[e].prompt) = <<>> THEN MsgMessageRequired ELSE Undefined,
           !.acks = Append(@,
             IF Trim(inbox[e].prompt) = <<>> THEN MsgMessageRequired ELSE Undefined),
           !.calls = @ \cup {"ack"} ]]
  /\ UNCHANGED <<ctx, inbox, allowStore, pairingStore>>

\* lines 52-58: the awaited ack settles; after the payload ack the handler
\* returns, after the plain ack it goes on; a rejected ack is caught
AckSettles(e) ==
  /\ inv[e].pc = "await_ack"
  /\ \E ok \in BOOLEAN :
       inv' = [inv EXCEPT ![e] =
         IF ~ok
         THEN [ @ EXCEPT !.ack = "failed", !.failed = @ \cup {"ack"}, !.pc = "catch" ]
         ELSE [ @ EXCEPT
                  !.ack = "done",
                  !.pc = IF inv[e].ackPayload = MsgMessageRequired
                         THEN "done" ELSE "self" ]]
  /\ UNCHANGED <<ctx, inbox, allowStore, pairingStore>>

\* a handler without the self-message test
SelfMessageCheckIgnored(e) ==
  /\ inv[e].pc = "self"
  /\ inv' = [inv EXCEPT ![e].pc = "resolveChannelName"]
  /\ UNCHANGED <<ctx, inbox, allowStore, pairingStore>>

\* line 60: a command sent by the bot itself is dropped
SelfMessageCheck(e) ==
  /\ inv[e].pc = "self"
  /\ inv' = [inv EXCEPT ![e].pc =
       IF ctx.botUserId # "" /\ Command(e).user_id = ctx.botUserId
       THEN "done" ELSE "resolveChannelName"]
  /\ UNCHANGED <<ctx, inbox, allowStore, pairingStore>>

\* line 64: channelInfo?.type ?? (channel_name === "directmessage" ? "im" : undefined)
ResolvedChannelType(command) ==
  IF ChannelDirectoryType(command.channel_id) # Undefined
  THEN ChannelDirectoryType(command.channel_id)
  ELSE IF command.channel_name = "directmessage" THEN "im" ELSE Undefined

\* lines 62-67: await ctx.resolveChannelName(command.channel_id)
ResolveChannelName(e) ==
  /\ inv[e].pc = "resolveChannelName"
  /\ \E ok \in BOOLEAN :
       inv' = [inv EXCEPT ![e] =
         IF ~ok THEN Throw(@, "resolveChannelName")
         ELSE [ @ EXCEPT
                  !.calls = @ \cup {"resolveChannelName"},
                  !.channelType = ResolvedChannelType(Command(e)),
                  !.channelName = ChannelDirectoryName(Command(e).channel_id),
                  !.pc = "isChannelAllowed" ]]
  /\ UNCHANGED <<ctx, inbox, allowStore, pairingStore>>

\* a generic channel check whose rejection is not followed by return
IsChannelAllowedFallsThrough(e) ==
  /\ inv[e].pc = "isChannelAllowed"
  /\ \E result \in {"true", "false", "throws"}, ok \in BOOLEAN :
       inv' = [inv EXCEPT ![e] =
         CASE result = "throws" -> Throw(@, "isChannelAllowed")
           [] result = "false" ->
                Respond([@ EXCEPT !.calls = @ \cup {"isChannelAllowed"}],
                        MsgChannelNotAllowed, 0, ok, "readStore", "catch")
           [] OTHER ->
                [ @ EXCEPT !.calls = @ \cup {"isChannelAllowed"}, !.pc = "readStore" ]]
  /\ UNCHANGED <<ctx, inbox, allowStore, pairingStore>>

\* lines 69-81: the generic ctx.isChannelAllowed check
IsChannelAllowed(e) ==
  /\ inv[e].pc = "isChannelAllowed"
  /\ \E result \in {"true", "false", "throws"} :
       inv' = [inv EXCEPT ![e] =
         CASE result = "throws" -> Throw(@, "isChannelAllowed")
           [] result = "false" ->
                Rejecting([@ EXCEPT !.calls = @ \cup {"isChannelAllowed"}],
                          MsgChannelNotAllowed)
           [] OTHER ->
                [ @ EXCEPT !.calls = @ \cup {"isChannelAllowed"}, !.pc = "readStore" ]]
  /\ UNCHANGED <<ctx, inbox, allowStore, pairingStore>>

\* lines 83-85: the store read; a failing read is replaced by the empty list
AfterStoreRead(r, storeAllowFrom) ==
  [ r EXCEPT
      !.calls = @ \cup {"readChannelAllowFromStore"},
      !.storeAllowFrom = storeAllowFrom,
      !.effectiveAllowFromLower =
        normalizeAllowListLower(normalizeAllowList(ctx.allowFrom \o storeAllowFrom)),
      !.pc = IF isDirectMessage(r) THEN "dm"
             ELSE IF isRoom(r) THEN "room" ELSE "sender" ]

\* a store read whose failure is not recovered
StoreReadThrows(r) == Throw(r, "readChannelAllowFromStore")

StoreReadFails(r) ==
  [ AfterStoreRead(r, <<>>) EXCEPT !.failed = @ \cup {"readChannelAllowFromStore"} ]

ReadChannelAllowFromStore(e) ==
  /\ inv[e].pc = "readStore"
  /\ \/ inv' = [inv EXCEPT ![e] = AfterStoreRead(@, allowStore)]
     \/ inv' = [inv EXCEPT ![e] = StoreReadFails(@)]
  /\ UNCHANGED <<ctx, inbox, allowStore, pairingStore>>

\* a DM branch that checks the allow-list under the pairing policy only
DmPolicyPairingOnly(e) ==
  /\ inv[e].pc = "dm"
  /\ inv' = [inv EXCEPT ![e] =
         IF ~ctx.dmEnabled \/ ctx.dmPolicy = "disabled"
         THEN Rejecting(@, MsgDmDisabled)
         ELSE IF ctx.dmPolicy = "pairing" THEN [ @ EXCEPT !.pc = "dm_user" ]
         ELSE [ @ EXCEPT !.pc = "sender" ]]
  /\ UNCHANGED <<ctx, inbox, allowStore, pairingStore>>

\* lines 89-97: the DM branch up to its first await
DmPolicy(e) ==
  /\ inv[e].pc = "dm"
  /\ inv' = [inv EXCEPT ![e] =
         IF ~ctx.dmEnabled \/ ctx.dmPolicy = "disabled"
         THEN Rejecting(@, MsgDmDisabled)
         ELSE IF ctx.dmPolicy # "open" THEN [ @ EXCEPT !.pc = "dm_user" ]
         ELSE [ @ EXCEPT !.pc = "sender" ]]
  /\ UNCHANGED <<ctx, inbox, allowStore, pairingStore>>

\* a check that hands the matcher the sender's id lower-cased
DmAllowListCheckLowerId(e) ==
  /\ inv[e].pc = "dm_user"
  /\ \E found \in BOOLEAN :
       inv' = [inv EXCEPT ![e] =
         IF ~found THEN Throw(@, "resolveUserName")
         ELSE
           LET name == UserDirectory(Command(e).user_id)
               permitted ==
                 allowListMatches(@.effectiveAllowFromLower,
                                  ToLower(Command(e).user_id), name)
               r == [ @ EXCEPT
                        !.calls = @ \cup {"resolveUserName"},
                        !.dmSenderName = name,
                        !.permitted = Some(permitted) ]
           IN IF permitted
              THEN [ r EXCEPT !.commandAuthorized = TRUE, !.pc = "sender" ]
              ELSE IF ctx.dmPolicy = "pairing" THEN [ r EXCEPT !.pc = "upsert" ]
              ELSE Rejecting(r, MsgNotAuthorized)]
  /\ UNCHANGED <<ctx, inbox, allowStore, pairingStore>>

\* lines 98-131: the sender is resolved and matched against the effective
\* allow-list; not permitted: pairing goes on to the upsert, any other policy
\* rejects
DmAllowListCheck(e) ==
  /\ inv[e].pc = "dm_user"
  /\ \E found \in BOOLEAN :
       inv' = [inv EXCEPT ![e] =
         IF ~found THEN Throw(@, "resolveUserName")
         ELSE
           LET name == UserDirectory(Command(e).user_id)
               permitted ==
                 allowListMatches(@.effectiveAllowFromLower, Command(e).user_id, name)
               r == [ @ EXCEPT
                        !.calls = @ \cup {"resolveUserName"},
                        !.dmSenderName = name,
                        !.permitted = Some(permitted) ]
           IN IF permitted
              THEN [ r EXCEPT !.commandAuthorized = TRUE, !.pc = "sender" ]
              ELSE IF ctx.dmPolicy = "pairing" THEN [ r EXCEPT !.pc = "upsert" ]
              ELSE Rejecting(r, MsgNotAuthorized)]
  /\ UNCHANGED <<ctx, inbox, allowStore, pairingStore>>

\* lines 107-111: upsertChannelPairingRequest is called and the handler waits
\* for it; the store reads the sender's entry.  upsertsReturned observes which
\* invocations' upserts had returned by then.
UpsertChannelPairingRequest(e) ==
  /\ inv[e].pc = "upsert"
  /\ \/ inv' = [inv EXCEPT ![e] = Throw(@, "upsertChannelPairingRequest")]
     \/ inv' = [inv EXCEPT ![e] =
          [ @ EXCEPT
              !.calls = @ \cup {"upsertChannelPairingRequest"},
              !.upsertRead = Some(pairingStore[Command(e).user_id]),
              !.upsertsReturned = Some({ f \in Events : inv[f].pairing # None }),
              !.pc = "await_upsert" ]]
  /\ UNCHANGED <<ctx, inbox, allowStore, pairingStore>>

\* a pairing branch that sends the instructions whether or not the request is new
UpsertAlwaysReplies(e) ==
  /\ inv[e].pc = "await_upsert"
  /\ LET id == Command(e).user_id
         found == TheOne(inv[e].upsertRead)
         code == UpsertCode(pairingStore, found)
         created == UpsertCreated(found)
     IN /\ pairingStore' = [pairingStore EXCEPT ![id] = code]
        /\ inv' = [inv EXCEPT ![e] =
             [ @ EXCEPT
                 !.pairing = Some([code |-> code, created |-> created]),
                 !.pc = "pairing_reply" ]]
  /\ UNCHANGED <<ctx, inbox, allowStore>>

\* lines 107-112 and 128: the awaited upsert returns {code, created}: the
\* request is appended or was found; when it was found nothing is sent and
\* the handler returns
UpsertSettles(e) ==
  /\ inv[e].pc = "await_upsert"
  /\ LET id == Command(e).user_id
         found == TheOne(inv[e].upsertRead)
         code == UpsertCode(pairingStore, found)
         created == UpsertCreated(found)
     IN /\ pairingStore' = [pairingStore EXCEPT ![id] = code]
        /\ inv' = [inv EXCEPT ![e] =
             [ @ EXCEPT
                 !.pairing = Some([code |-> code, created |-> created]),
                 !.pc = IF created THEN "pairing_reply" ELSE "done" ]]
  /\ UNCHANGED <<ctx, inbox, allowStore>>

\* lines 112-121 and 128: the pairing instructions, only for a new request
PairingReply(e) ==
  /\ inv[e].pc = "pairing_reply"
  /\ \E ok \in BOOLEAN :
       inv' = [inv EXCEPT ![e] =
         Respond(@, MsgPairing, TheOne(@.pairing).code, ok, "done", "catch")]
  /\ UNCHANGED <<ctx, inbox, allowStore, pairingStore>>

\* the test inverted
ChannelAllowedInverted(channelConfig) == channelConfig.allowed = FALSE

\* line 144: channelConfig?.allowed !== false
ChannelAllowed(channelConfig) == channelConfig.allowed # FALSE

\* lines 141-151: the call of isSlackRoomAllowedByPolicy, its arguments and
\* what it answered
GateCall(context, channelConfig) ==
  [ groupPolicy |-> context.groupPolicy,
    channelAllowlistConfigured |-> ChannelAllowlistConfigured(context.channelsConfig),
    channelAllowed |-> ChannelAllowed(channelConfig),
    result |-> isSlackRoomAllowedByPolicy(context.groupPolicy,
                 ChannelAllowlistConfigured(context.channelsConfig),
                 ChannelAllowed(channelConfig)) ]

\* a room check that asks the gate alone, as if the channel were allowed
RoomRejectedGateOnly(context, channelConfig) ==
  /\ context.useAccessGroups
  /\ ~isSlackRoomAllowedByPolicy(context.groupPolicy,
                                 ChannelAllowlistConfigured(context.channelsConfig), TRUE)

\* lines 141-166: with access groups enforced, a room is rejected when the
\* Access Policy Gate refuses it or its resolved config says allowed = false
RoomRejected(context, channelConfig) ==
  LET channelAllowlistConfigured == ChannelAllowlistConfigured(context.channelsConfig)
      channelAllowed == ChannelAllowed(channelConfig)
  IN \/ /\ context.useAccessGroups
        /\ \/ ~isSlackRoomAllowedByPolicy(context.groupPolicy,
                                          channelAllowlistConfigured, channelAllowed)
           \/ ~channelAllowed
     \/ context.useAccessGroups /\ channelConfig.allowed = FALSE

\* a room branch that resolves the config by the channel id alone
RoomBranchByIdOnly(e) ==
  /\ inv[e].pc = "room"
  /\ LET channelConfig ==
             resolveSlackChannelConfig(Command(e).channel_id, Undefined,
                                       ctx.channelsConfig, ctx.defaultRequireMention)
           r == [ inv[e] EXCEPT
                    !.calls = @ \cup {"resolveSlackChannelConfig"},
                    !.channelConfig = Some(channelConfig),
                    !.gate = IF ctx.useAccessGroups
                             THEN Some(GateCall(ctx, channelConfig)) ELSE None ]
       IN inv' = [inv EXCEPT ![e] =
            IF RoomRejected(ctx, channelConfig)
            THEN Rejecting(r, MsgChannelNotAllowed)
            ELSE [ r EXCEPT !.pc = "sender" ]]
  /\ UNCHANGED <<ctx, inbox, allowStore, pairingStore>>

\* lines 134-167: the room branch
RoomBranch(e) ==
  /\ inv[e].pc = "room"
  /\ LET channelConfig ==
             resolveSlackChannelConfig(Command(e).channel_id, inv[e].channelName,
                                       ctx.channelsConfig, ctx.defaultRequireMention)
           r == [ inv[e] EXCEPT
                    !.calls = @ \cup {"resolveSlackChannelConfig"},
                    !.channelConfig = Some(channelConfig),
                    !.gate = IF ctx.useAccessGroups
                             THEN Some(GateCall(ctx, channelConfig)) ELSE None ]
       IN inv' = [inv EXCEPT ![e] =
            IF RoomRejected(ctx, channelConfig)
            THEN Rejecting(r, MsgChannelNotAllowed)
            ELSE [ r EXCEPT !.pc = "sender" ]]
  /\ UNCHANGED <<ctx, inbox, allowStore, pairingStore>>

\* line 170: sender?.name ?? command.user_name ?? command.user_id
SenderName(command) ==
  IF UserDirectory(command.user_id) # Undefined THEN UserDirectory(command.user_id)
  ELSE IF command.user_name # Undefined THEN command.user_name
  ELSE command.user_id

\* a per-user check that permits everybody
ChannelUserAllowedAlways(r, command, senderName) == TRUE

\* lines 171-177: the per-user check applies to rooms only
ChannelUserAllowed(r, command, senderName) ==
  IF isRoom(r)
  THEN resolveSlackUserAllowed(
         IF r.channelConfig = None THEN None ELSE TheOne(r.channelConfig).users,
         command.user_id, senderName)
  ELSE TRUE

\* lines 169-184: the sender is resolved, then the per-user allow-list check
ResolveSender(e) ==
  /\ inv[e].pc = "sender"
  /\ \E found \in BOOLEAN :
       inv' = [inv EXCEPT ![e] =
         IF ~found THEN Throw(@, "resolveUserName")
         ELSE
           LET r == [ @ EXCEPT
                        !.calls = @ \cup {"resolveUserName"},
                        !.senderName = SenderName(Command(e)) ]
           IN IF isRoom(r) /\ ~ChannelUserAllowed(r, Command(e), r.senderName)
              THEN Rejecting(r, MsgNotAuthorizedHere)
              ELSE [ r EXCEPT !.pc = "route" ]]
  /\ UNCHANGED <<ctx, inbox, allowStore, pairingStore>>

\* lines 194-197: the peer handed to resolveAgentRoute
RoutePeer(r, command) ==
  [ kind |-> IF isDirectMessage(r) THEN "dm" ELSE IF isRoom(r) THEN "channel" ELSE "group",
    id |-> IF isDirectMessage(r) THEN command.user_id ELSE command.channel_id ]

\* a payload whose flag says whether the allow-list admitted the sender
CtxPayloadFlagFromAllowList(r, command, prompt) ==
  [ Body |-> prompt,
    From |-> IF isDirectMessage(r) THEN <<"slack", command.user_id>>
             ELSE IF isRoom(r) THEN <<"slack", "channel", command.channel_id>>
             ELSE <<"slack", "group", command.channel_id>>,
    ChatType |-> IF isDirectMessage(r) THEN "direct"
                 ELSE IF isRoom(r) THEN "room" ELSE "group",
    SenderName |-> r.senderName,
    SenderId |-> command.user_id,
    WasMentioned |-> TRUE,
    CommandSource |-> "native",
    CommandAuthorized |-> r.permitted = Some(TRUE) ]

\* lines 212-237: the context payload (the fields the routing decides)
CtxPayload(r, command, prompt) ==
  [ Body |-> prompt,
    From |-> IF isDirectMessage(r) THEN <<"slack", command.user_id>>
             ELSE IF isRoom(r) THEN <<"slack", "channel", command.channel_id>>
             ELSE <<"slack", "group", command.channel_id>>,
    ChatType |-> IF isDirectMessage(r) THEN "direct"
                 ELSE IF isRoom(r) THEN "room" ELSE "group",
    SenderName |-> r.senderName,
    SenderId |-> command.user_id,
    WasMentioned |-> TRUE,
    CommandSource |-> "native",
    CommandAuthorized |-> r.commandAuthorized ]

\* lines 186-237: the route is resolved and the context payload is built
ResolveAgentRoute(e) ==
  /\ inv[e].pc = "route"
  /\ \E ok \in BOOLEAN :
       inv' = [inv EXCEPT ![e] =
         IF ~ok THEN Throw(@, "resolveAgentRoute")
         ELSE [ @ EXCEPT
                  !.calls = @ \cup {"resolveAgentRoute"},
                  !.route = Some(RoutePeer(inv[e], Command(e))),
                  !.ctxPayload = Some(CtxPayload(inv[e], Command(e), inbox[e].prompt)),
                  !.pc = "dispatch" ]]
  /\ UNCHANGED <<ctx, inbox, allowStore, pairingStore>>

\* line 258: counts.final + counts.tool + counts.block
TotalReplies(counts) == counts.final + counts.tool + counts.block

\* line 258: is the empty-result message due
NoReplies(counts) == TotalReplies(counts) = 0

\* the replies the dispatcher has produced so far: each was handed to deliver,
\* which handed it to respond
RepliesProduced(r) ==
  Cardinality({ i \in DOMAIN r.responses : r.responses[i].text = MsgReply })

\* the counts dispatch returns: deliver is invoked once per reply produced,
\* and the counts are those of the replies produced, by kind
DispatchCounts(r) ==
  { c \in ReplyCounts : TotalReplies(c) = RepliesProduced(r) }

\* lines 239-250: dispatchReplyWithDispatcher is running; it produces one
\* more reply and calls deliver, which calls respond and waits for it
DispatchReply(e) ==
  /\ inv[e].pc = "dispatch"
  /\ RepliesProduced(inv[e]) < MaxReplyCount
  /\ inv' = [inv EXCEPT ![e] =
       [ @ EXCEPT !.calls = @ \cup {"deliver"}, !.pc = "deliver" ]]
  /\ UNCHANGED <<ctx, inbox, allowStore, pairingStore>>

\* lines 244-254: the respond of a reply settles; when it rejects, deliver
\* fails, the dispatcher reports it to onError, which logs it with
\* runtime.error, and the dispatch goes on
DeliverReply(e) ==
  /\ inv[e].pc = "deliver"
  /\ \E ok \in BOOLEAN :
       inv' = [inv EXCEPT ![e] =
         LET r == Respond(@, MsgReply, 0, ok, "dispatch", "dispatch")
         IN IF ok THEN r
            ELSE [ r EXCEPT !.failed = @ \cup {"deliver"},
                            !.calls = @ \cup {"runtime.error"} ]]
  /\ UNCHANGED <<ctx, inbox, allowStore, pairingStore>>

\* lines 239-258: the awaited dispatchReplyWithDispatcher settles: it rejects,
\* or it returns counts and line 258 tests them
DispatchSettles(e) ==
  /\ inv[e].pc = "dispatch"
  /\ \/ inv' = [inv EXCEPT ![e] =
            [ @ EXCEPT
                !.calls = @ \cup {"dispatchReplyWithDispatcher"},
                !.failed = @ \cup {"dispatchReplyWithDispatcher"},
                !.pc = "catch" ]]
     \/ \E counts \in DispatchCounts(inv[e]) :
          inv' = [inv EXCEPT ![e] =
            [ @ EXCEPT
                !.calls = @ \cup {"dispatchReplyWithDispatcher"},
                !.counts = Some(counts),
                !.pc = IF NoReplies(counts) THEN "empty_result" ELSE "done" ]]
  /\ UNCHANGED <<ctx, inbox, allowStore, pairingStore>>

\* the awaited respond of a rejection settles; the handler returns, a
\* rejected respond is caught
RejectionSettles(e) ==
  /\ inv[e].pc = "reject"
  /\ \E ok \in BOOLEAN :
       inv' = [inv EXCEPT ![e] = Reject(@, @.rejection, ok)]
  /\ UNCHANGED <<ctx, inbox, allowStore, pairingStore>>

\* lines 259-264: deliverSlackSlashReplies with no replies sends the
\* empty-result message
DeliverEmptyResult(e) ==
  /\ inv[e].pc = "empty_result"
  /\ \E ok \in BOOLEAN :
       inv' = [inv EXCEPT ![e] =
         Respond([ @ EXCEPT !.calls = @ \cup {"deliver"} ],
                 MsgEmptyResult, 0, ok, "done", "catch")]
  /\ UNCHANGED <<ctx, inbox, allowStore, pairingStore>>

\* a catch block that acknowledges the command before it answers
FatalCatchAcks(e) ==
  /\ inv[e].pc = "catch"
  /\ \E ok \in BOOLEAN :
       inv' = [inv EXCEPT ![e] =
         Respond([ @ EXCEPT !.calls = @ \cup {"runtime.error", "ack"},
                            !.acks = Append(@, Undefined) ],
                 MsgFailure, 0, ok, "done", "thrown")]
  /\ UNCHANGED <<ctx, inbox, allowStore, pairingStore>>

\* lines 266-272: the catch block answers with the generic failure message;
\* when that respond rejects too, the rejection leaves the handler
FatalCatch(e) ==
  /\ inv[e].pc = "catch"
  /\ \E ok \in BOOLEAN :
       inv' = [inv EXCEPT ![e] =
         Respond([ @ EXCEPT !.calls = @ \cup {"runtime.error"} ],
                 MsgFailure, 0, ok, "done", "thrown")]
  /\ UNCHANGED <<ctx, inbox, allowStore, pairingStore>>

Next ==
  \/ \E e \in Events : HandleSlashCommand(e)
  \/ \E e \in Events : AckSettles(e)
  \/ \E e \in Events : SelfMessageCheck(e)
  \/ \E e \in Events : ResolveChannelName(e)
  \/ \E e \in Events : IsChannelAllowed(e)
  \/ \E e \in Events : ReadChannelAllowFromStore(e)
  \/ \E e \in Events : DmPolicy(e)
  \/ \E e \in Events : DmAllowListCheck(e)
  \/ \E e \in Events : UpsertChannelPairingRequest(e)
  \/ \E e \in Events : UpsertSettles(e)
  \/ \E e \in Events : PairingReply(e)
  \/ \E e \in Events : RoomBranch(e)
  \/ \E e \in Events : ResolveSender(e)
  \/ \E e \in Events : ResolveAgentRoute(e)
  \/ \E e \in Events : RejectionSettles(e)
  \/ \E e \in Events : DispatchReply(e)
  \/ \E e \in Events : DeliverReply(e)
  \/ \E e \in Events : DispatchSettles(e)
  \/ \E e \in Events : DeliverEmptyResult(e)
  \/ \E e \in Events : FatalCatch(e)

Spec == Init /\ [][Next]_vars

\* the steps of one invocation
Step(e) ==
  /\ e \in Events
  /\ \/ HandleSlashCommand(e) \/ AckSettles(e) \/ SelfMessageCheck(e)
     \/ ResolveChannelName(e) \/ IsChannelAllowed(e) \/ ReadChannelAllowFromStore(e)
     \/ DmPolicy(e) \/ DmAllowListCheck(e) \/ UpsertChannelPairingRequest(e)
     \/ UpsertSettles(e) \/ PairingReply(e) \/ RoomBranch(e) \/ ResolveSender(e) \/ ResolveAgentRoute(e)
     \/ RejectionSettles(e) \/ DispatchReply(e) \/ DeliverReply(e)
     \/ DispatchSettles(e) \/ DeliverEmptyResult(e) \/ FatalCatch(e)

\* every awaited call settles: an invocation that can take a step takes one
Fairness == \A e \in 1..NumEvents : WF_vars(Step(e))

\* a sender may have a pairing request pending from an earlier command
PendingRequests ==
  { [u \in UserIds |-> 0], [u \in UserIds |-> IF u = "U1" THEN 1 ELSE 0] }

InitFair ==
  /\ ctx \in Contexts
  /\ inbox \in [{1} -> [command : Commands, prompt : Prompts]]
  /\ inv = [e \in {1} |-> IdleHandler]
  /\ allowStore \in StoreResults
  /\ pairingStore \in PendingRequests

SpecFair == InitFair /\ [][Next]_vars /\ Fairness

----------------------------------------------------------------------------
(* Several commands handled concurrently under the pairing policy: the      *)
(* handlers interleave at their awaits and share the pairing store.         *)

PairingContexts ==
  { c \in Contexts :
      /\ c.dmEnabled /\ c.dmPolicy = "pairing"
      /\ c.botUserId = "UBOT"
      /\ c.allowFrom = <<>>
      /\ c.useAccessGroups /\ c.groupPolicy = "open"
      /\ c.channelsConfig = None }

\* direct messages of two senders
PairingDmCommands ==
  { c \in Commands : c.user_id \in {"U1", "U2"} /\ c.channel_id = "D1" }

\* a room command, handled next to the direct messages
PairingRoomCommands ==
  { c \in Commands : c.user_id = "U2" /\ c.channel_id = "C1" }

\* no stored entry: no sender has been approved; the first command may be
\* the room command of U2, next to direct messages of U1; the others are
\* direct messages
InitPairing ==
  /\ ctx \in PairingContexts
  /\ inbox \in { ib \in [1..NumEvents -> [command : PairingDmCommands \cup PairingRoomCommands,
                                            prompt : {<<" ", "h">>}]] :
                   \A e \in 2..NumEvents :
                      /\ ib[e].command \in PairingDmCommands
                      /\ ib[1].command \in PairingRoomCommands
                            => ib[e].command.user_id = "U1" }
  /\ inv = [e \in 1..NumEvents |-> IdleHandler]
  /\ allowStore = <<>>
  /\ pairingStore = [u \in UserIds |-> 0]

SpecPairing == InitPairing /\ [][Next]_vars

----------------------------------------------------------------------------
(* Commands in the rooms of the workspace under every channels mapping and  *)
(* every defaultRequireMention, next to a direct message under the pairing  *)
(* policy.                                                                  *)

RoomContexts ==
  [ botUserId : {"UBOT"},
    dmEnabled : {TRUE},
    dmPolicy : {"pairing"},
    allowFrom : { <<>> },
    useAccessGroups : BOOLEAN,
    groupPolicy : {"open", "allowlist", "disabled"},
    channelsConfig : RoomChannelsConfigs,
    defaultRequireMention : {None, Some(TRUE), Some(FALSE)} ]

RoomCommands ==
  { c \in Commands :
      \/ c.user_id \in {"U1", "U2"} /\ c.channel_id \in {"C1", "P1"}
      \/ c.user_id = "U1" /\ c.channel_id = "D1" }

InitRooms ==
  /\ ctx \in RoomContexts
  /\ inbox \in [{1} -> [command : RoomCommands, prompt : {<<" ", "h">>}]]
  /\ inv = [e \in {1} |-> IdleHandler]
  /\ allowStore = <<>>
  /\ pairingStore = [u \in UserIds |-> 0]

SpecRooms == InitRooms /\ [][Next]_vars

----------------------------------------------------------------------------
(* Direct messages under the restrictive policies, with allow-lists that    *)
(* name the senders by identifier and by display name in either case.       *)

AllowLists ==
  { <<>>, <<"U1">>, <<"u1">>, <<"alice">>, <<"ALICE">>, <<"BOB">>, <<"u2", "">> }

AllowListStoreResults == { <<>>, <<"*">>, <<"U2">> }

AllowListContexts ==
  [ botUserId : {"UBOT"},
    dmEnabled : {TRUE},
    dmPolicy : {"allowlist", "pairing"},
    allowFrom : AllowLists,
    useAccessGroups : {TRUE},
    groupPolicy : {"open"},
    channelsConfig : {None},
    defaultRequireMention : {None} ]

\* direct messages of both senders, and a room command
AllowListCommands ==
  { c \in Commands :
      \/ c.user_id \in {"U1", "U2"} /\ c.channel_id \in {"D1", "X1"}
      \/ c.user_id = "U1" /\ c.channel_id = "C1" }

InitAllowList ==
  /\ ctx \in AllowListContexts
  /\ inbox \in [{1} -> [command : AllowListCommands, prompt : {<<" ", "h">>}]]
  /\ inv = [e \in {1} |-> IdleHandler]
  /\ allowStore \in AllowListStoreResults
  /\ pairingStore = [u \in UserIds |-> 0]

SpecAllowList == InitAllowList /\ [][Next]_vars

----------------------------------------------------------------------------
(* Observations on an invocation *)

Terminated(e) == inv[e].pc \in {"done", "thrown"}
Called(e, name) == name \in inv[e].calls
HasResponse(e, text) == \E i \in DOMAIN inv[e].responses : inv[e].responses[i].text = text
IsBlank(prompt) == \A i \in DOMAIN prompt : prompt[i] = " "
ReachedDispatch(e) == Called(e, "resolveAgentRoute") \/ Called(e, "dispatchReplyWithDispatcher")
\* respond has been called with the text, settled or not
Issued(e, text) == inv[e].rejection = text \/ HasResponse(e, text)
\* the check's rejection is the text, and once its respond settled it is the
\* first message of the invocation
RejectedWith(e, text) ==
  /\ inv[e].rejection = text
  /\ inv[e].pc # "reject" => inv[e].responses # <<>> /\ inv[e].responses[1].text = text
\* the catch block has answered
CatchRan(e) == HasResponse(e, MsgFailure)

----------------------------------------------------------------------------
(* Claims *)

\* C1: with a non-blank prompt, no slow collaborator (resolveChannelName,
\* isChannelAllowed, readChannelAllowFromStore, resolveUserName,
\* upsertChannelPairingRequest, resolveSlackChannelConfig, resolveAgentRoute,
\* dispatchReplyWithDispatcher) has been called in a state in which the
\* payload-less ack() has not been called and completed.
C1_AckBeforeSlowWork ==
  \A e \in Events :
    (~IsBlank(inbox[e].prompt) /\ inv[e].calls \cap SlowCollaborators # {})
      => inv[e].ack = "done" /\ inv[e].ackPayload = Undefined

C1_Witness ==
  \E e \in Events :
    /\ ~IsBlank(inbox[e].prompt)
    /\ Called(e, "dispatchReplyWithDispatcher")
    /\ inv[e].ack = "done"

\* C2: whichever collaborator call fails, the handler ends without the
\* failure reaching its caller and with the event acknowledged.
C2_NeverThrowsAlwaysAcked ==
  \A e \in Events :
    Terminated(e) => inv[e].pc = "done" /\ inv[e].ack = "done"

\* C3: an invocation that issued a policy rejection ("Message required." by
\* the payload ack, one of the four rejection texts, or the pairing branch)
\* never calls resolveAgentRoute or dispatchReplyWithDispatcher.
C3_RejectionNeverDispatches ==
  \A e \in Events :
    ( \/ inv[e].ackPayload = MsgMessageRequired
      \/ \E t \in RejectionTexts : Issued(e, t)
      \/ inv[e].pairing # None
      \/ HasResponse(e, MsgPairing) )
      => ~ReachedDispatch(e)

C3_Witness ==
  \E e \in Events :
    /\ HasResponse(e, MsgNotAuthorizedHere)
    /\ Called(e, "resolveSlackChannelConfig")
    /\ inv[e].pc = "done"

\* C4: for a blank prompt the only acknowledgment carries "Message
\* required.", the payload-less ack is never called, no slow collaborator and
\* no dispatch is ever called, and when that ack succeeds nothing but ack is
\* called at all.
C4_BlankPromptOnlyAcks ==
  \A e \in Events :
    (IsBlank(inbox[e].prompt) /\ inv[e].pc # "idle")
      => /\ inv[e].ackPayload = MsgMessageRequired
         /\ inv[e].calls \cap (SlowCollaborators \cup {"deliver"}) = {}
         /\ inv[e].ack # "failed" => inv[e].calls = {"ack"}
         /\ inv[e].ack = "done" => inv[e].pc = "done"

C4_Witness ==
  \E e \in Events :
    /\ inbox[e].prompt # <<>>
    /\ IsBlank(inbox[e].prompt)
    /\ inv[e].pc = "done"
    /\ inv[e].ack = "done"

\* C5 as stated: a room whose resolved channel config has allowed = false is
\* rejected with "This channel is not allowed." and never dispatched,
\* whatever the group policy and the access-group settings.
C5_DeniedRoomAlwaysRejected ==
  \A e \in Events :
    ( /\ isRoom(inv[e])
      /\ inv[e].channelConfig # None
      /\ ~TheOne(inv[e].channelConfig).allowed )
      => RejectedWith(e, MsgChannelNotAllowed) /\ ~ReachedDispatch(e)

\* C5 amended: with access-group enforcement on (useAccessGroups), a room
\* whose resolved channel config has allowed = false is rejected with "This
\* channel is not allowed." and never dispatched, whatever the group policy.
C5_DeniedRoomRejectedUnderAccessGroups ==
  \A e \in Events :
    ( /\ ctx.useAccessGroups
      /\ isRoom(inv[e])
      /\ inv[e].channelConfig # None
      /\ ~TheOne(inv[e].channelConfig).allowed )
      => RejectedWith(e, MsgChannelNotAllowed) /\ ~ReachedDispatch(e)

C5_Witness ==
  \E e \in Events :
    /\ ctx.useAccessGroups /\ ctx.groupPolicy = "open"
    /\ isRoom(inv[e])
    /\ inv[e].channelConfig # None
    /\ ~TheOne(inv[e].channelConfig).allowed
    /\ HasResponse(e, MsgChannelNotAllowed)
    /\ inv[e].pc = "done"

\* C6 as stated: under the pairing policy, in every interleaving, among the
\* invocations whose upsert returned, for one sender exactly one got
\* created = true (the first upsert) and it alone sends the pairing
\* instructions; every other one sends nothing, got the same code with
\* created = false, and none of them reaches dispatch.
C6_PairingRepliedOnce ==
  /\ \A e \in Events :
       /\ HasResponse(e, MsgPairing)
            => inv[e].pairing # None /\ TheOne(inv[e].pairing).created
       /\ inv[e].pairing # None =>
            LET p == TheOne(inv[e].pairing)
            IN /\ ~ReachedDispatch(e)
               /\ p.code # 0
               /\ p.code = pairingStore[Command(e).user_id]
               /\ ~p.created => inv[e].responses = <<>> /\ inv[e].pc = "done"
               /\ (p.created /\ inv[e].pc # "pairing_reply")
                    => /\ inv[e].responses # <<>>
                       /\ inv[e].responses[1].text = MsgPairing
                       /\ inv[e].responses[1].code = p.code
               /\ \E f \in Events :
                    /\ Command(f).user_id = Command(e).user_id
                    /\ inv[f].pairing # None
                    /\ TheOne(inv[f].pairing).created
  /\ \A e, f \in Events :
       ( /\ e # f
         /\ Command(e).user_id = Command(f).user_id
         /\ inv[e].pairing # None
         /\ inv[f].pairing # None )
         => /\ ~(TheOne(inv[e].pairing).created /\ TheOne(inv[f].pairing).created)
            /\ TheOne(inv[e].pairing).code = TheOne(inv[f].pairing).code

\* the upsert of f had returned when the upsert of e was called
UpsertAfter(e, f) ==
  inv[e].upsertsReturned # None /\ f \in TheOne(inv[e].upsertsReturned)

\* no two upserts for the sender were in flight together: of any two that
\* were called, one was called after the other had returned
UpsertsInSequence(u) ==
  \A e, f \in Events :
    ( /\ e # f
      /\ Command(e).user_id = u /\ Command(f).user_id = u
      /\ inv[e].upsertsReturned # None /\ inv[f].upsertsReturned # None )
      => UpsertAfter(e, f) \/ UpsertAfter(f, e)

\* C6 amended: under the pairing policy, in every interleaving the pairing
\* instructions are sent only by an invocation whose upsert returned
\* created = true, an invocation that got created = false sends nothing, and
\* none of them reaches dispatch; and when the upserts for one sender do not
\* overlap (each is called after the one before has returned), exactly one of
\* them got created = true, the first, and every later one got the same code
\* with created = false.
C6_PairingRepliedOnceInSequence ==
  /\ \A e \in Events :
       /\ HasResponse(e, MsgPairing)
            => inv[e].pairing # None /\ TheOne(inv[e].pairing).created
       /\ inv[e].pairing # None =>
            LET p == TheOne(inv[e].pairing)
            IN /\ ~ReachedDispatch(e)
               /\ p.code # 0
               /\ ~p.created => inv[e].responses = <<>> /\ inv[e].pc = "done"
               /\ (p.created /\ inv[e].pc # "pairing_reply")
                    => /\ inv[e].responses # <<>>
                       /\ inv[e].responses[1].text = MsgPairing
                       /\ inv[e].responses[1].code = p.code
  /\ \A e \in Events :
       (inv[e].pairing # None /\ UpsertsInSequence(Command(e).user_id)) =>
         /\ TheOne(inv[e].pairing).code = pairingStore[Command(e).user_id]
         /\ \E f \in Events :
              /\ Command(f).user_id = Command(e).user_id
              /\ inv[f].pairing # None
              /\ TheOne(inv[f].pairing).created
         /\ \A f \in Events :
              ( /\ e # f
                /\ Command(f).user_id = Command(e).user_id
                /\ inv[f].pairing # None )
                => /\ ~(TheOne(inv[e].pairing).created /\ TheOne(inv[f].pairing).created)
                   /\ TheOne(inv[e].pairing).code = TheOne(inv[f].pairing).code
                   /\ UpsertAfter(e, f) => ~TheOne(inv[e].pairing).created

\* two commands of one sender, the second upsert called after the first
\* returned: the first sent the instructions, the second nothing
C6_Witness ==
  \E e, f \in Events :
    /\ e # f
    /\ Command(e).user_id = Command(f).user_id
    /\ UpsertAfter(f, e)
    /\ inv[e].pairing # None /\ TheOne(inv[e].pairing).created
    /\ inv[f].pairing # None /\ ~TheOne(inv[f].pairing).created
    /\ HasResponse(e, MsgPairing)
    /\ inv[f].responses = <<>>
    /\ inv[e].pc = "done" /\ inv[f].pc = "done"

\* C7: a failing readChannelAllowFromStore is not fatal: the handler goes on
\* with an empty stored list, the effective allow-list is the static
\* allowFrom alone, the DM decision is the one that list gives, and unless
\* something else fails no failure message is sent.
C7_StoreFailureDegradesToStatic ==
  \A e \in Events :
    "readChannelAllowFromStore" \in inv[e].failed =>
      /\ inv[e].storeAllowFrom = <<>>
      /\ inv[e].effectiveAllowFromLower =
           normalizeAllowListLower(normalizeAllowList(ctx.allowFrom))
      /\ inv[e].permitted # None =>
           TheOne(inv[e].permitted) =
             allowListMatches(normalizeAllowListLower(normalizeAllowList(ctx.allowFrom)),
                              Command(e).user_id, UserDirectory(Command(e).user_id))
      /\ inv[e].failed = {"readChannelAllowFromStore"} =>
           /\ inv[e].pc \notin {"catch", "thrown"}
           /\ ~HasResponse(e, MsgFailure)

C7_Witness ==
  \E e \in Events :
    /\ inv[e].failed = {"readChannelAllowFromStore"}
    /\ isDirectMessage(inv[e])
    /\ ctx.dmPolicy = "allowlist"
    /\ inv[e].permitted = Some(TRUE)
    /\ Called(e, "dispatchReplyWithDispatcher")
    /\ inv[e].pc = "done"

\* C8: a direct message reaches dispatch only with DMs enabled, a policy
\* other than "disabled", and either the "open" policy or a sender whose id
\* or name matches the effective allow-list (static allowFrom and stored
\* entries); the DM branch answers "Slack DMs are disabled." when DMs are
\* off and "You are not authorized to use this command." to a sender not
\* permitted under a restrictive policy other than "pairing"; with an empty
\* effective allow-list under a non-open policy no DM is dispatched.
C8_DmGate ==
  \A e \in Events :
    isDirectMessage(inv[e]) =>
      LET eff == normalizeAllowListLower(
                   normalizeAllowList(ctx.allowFrom \o inv[e].storeAllowFrom))
          matches == allowListMatches(eff, Command(e).user_id,
                                      UserDirectory(Command(e).user_id))
          dmOff == ~ctx.dmEnabled \/ ctx.dmPolicy = "disabled"
          branchEntered ==
            Called(e, "readChannelAllowFromStore") /\ inv[e].pc # "dm"
      IN /\ ReachedDispatch(e) => ~dmOff /\ (ctx.dmPolicy = "open" \/ matches)
         /\ (dmOff /\ branchEntered)
              => /\ RejectedWith(e, MsgDmDisabled)
                 /\ ~Called(e, "resolveUserName")
         /\ (~dmOff /\ ctx.dmPolicy \notin {"open", "pairing"}
               /\ inv[e].permitted # None /\ ~matches)
              => RejectedWith(e, MsgNotAuthorized)
         /\ (ctx.dmPolicy # "open" /\ branchEntered /\ eff = <<>>) => ~ReachedDispatch(e)

C8_Witness ==
  \E e \in Events :
    /\ isDirectMessage(inv[e])
    /\ ctx.dmPolicy = "allowlist"
    /\ inv[e].storeAllowFrom = <<>>
    /\ inv[e].permitted = Some(TRUE)
    /\ Called(e, "dispatchReplyWithDispatcher")

\* C9: a room command is dispatched only if the sender is permitted by the
\* resolved channel config's users list and is otherwise answered "You are
\* not authorized to use this command here."; a direct message or group DM
\* never gets that answer, passes the per-user step unchecked, and has been
\* through the generic channel check (and, for a direct message, the DM
\* policy) before.
C9_PerUserCheckRoomsOnly ==
  \A e \in Events :
    LET users == resolveSlackChannelConfig(
                   Command(e).channel_id, inv[e].channelName,
                   ctx.channelsConfig, ctx.defaultRequireMention).users
        permittedHere == resolveSlackUserAllowed(users, Command(e).user_id,
                                                 SenderName(Command(e)))
    IN /\ (isRoom(inv[e]) /\ ReachedDispatch(e)) => permittedHere
       /\ (isRoom(inv[e]) /\ inv[e].senderName # Undefined /\ ~permittedHere)
            => RejectedWith(e, MsgNotAuthorizedHere) /\ ~ReachedDispatch(e)
       /\ ~isRoom(inv[e]) => ~Issued(e, MsgNotAuthorizedHere)
       /\ (~isRoom(inv[e]) /\ inv[e].senderName # Undefined)
            => /\ inv[e].pc \notin {"sender"}
               /\ inv[e].channelConfig = None
               /\ Called(e, "isChannelAllowed")
               /\ isDirectMessage(inv[e]) =>
                    ctx.dmEnabled /\ ctx.dmPolicy # "disabled"
               /\ inv[e].failed = {} => ReachedDispatch(e) \/ inv[e].pc = "route"

C9_Witness ==
  \E e \in Events :
    /\ isRoom(inv[e])
    /\ inv[e].senderName # Undefined
    /\ HasResponse(e, MsgNotAuthorizedHere)
    /\ inv[e].pc = "done"

\* C10: a command sent by the bot's own known user id is dropped: no slow
\* collaborator, no pairing request, no route and no dispatch; respond is
\* not called by the drop (only the catch block calls it, when ack itself
\* rejected), and past the self-check the handler has returned.
C10_SelfMessageDropped ==
  \A e \in Events :
    (ctx.botUserId # "" /\ Command(e).user_id = ctx.botUserId) =>
      /\ inv[e].calls \cap (SlowCollaborators \cup {"deliver"}) = {}
      /\ ~ReachedDispatch(e)
      /\ inv[e].pairing = None
      /\ pairingStore[Command(e).user_id] = 0
      /\ inv[e].rejection = Undefined
      /\ inv[e].ack # "failed" => inv[e].responses = <<>> /\ ~Called(e, "respond")
      /\ (inv[e].ack = "done" /\ inv[e].pc # "self") => inv[e].pc = "done"

C10_Witness ==
  \E e \in Events :
    /\ ctx.botUserId # "" /\ Command(e).user_id = ctx.botUserId
    /\ ~IsBlank(inbox[e].prompt)
    /\ inv[e].ack = "done"
    /\ inv[e].pc = "done"
    /\ inv[e].responses = <<>>

----------------------------------------------------------------------------
\* C11: once dispatch has returned its counts, a total of zero replies
\* (final + tool + block = 0) is followed by the empty-result message, sent
\* through the reply-delivery path (the handler is about to send it or has
\* handed it to respond); with a total of at least one reply no empty-result
\* message is ever sent; and an invocation whose dispatch returned does not
\* end in silence: at its end a message of it has reached the user.
C11_EmptyResultIffNoReplies ==
  \A e \in Events :
    inv[e].counts # None =>
      LET counts == TheOne(inv[e].counts)
      IN /\ counts.final + counts.tool + counts.block = 0 =>
              \/ inv[e].pc = "empty_result"
              \/ /\ Called(e, "deliver")
                 /\ inv[e].responses # <<>>
                 /\ inv[e].responses[1].text = MsgEmptyResult
         /\ counts.final + counts.tool + counts.block > 0 =>
              ~HasResponse(e, MsgEmptyResult)
         /\ Terminated(e) =>
              \E i \in DOMAIN inv[e].responses : inv[e].responses[i].ok

----------------------------------------------------------------------------
\* C12: the requireMention a room's config resolves to is the explicit value
\* of the most specific matched entry (the channel id key, else the channel
\* name key, else the "*" key), whatever defaultRequireMention is; when the
\* matched entry has no explicit value, or no entry matches, it is
\* defaultRequireMention; and when that is unset too it is true.
C12_RequireMentionPrecedence ==
  \A e \in Events :
    inv[e].channelConfig # None =>
      LET entries == IF ctx.channelsConfig = None THEN EmptyMap
                     ELSE TheOne(ctx.channelsConfig)
          id == Command(e).channel_id
          name == ChannelDirectoryName(id)
          key == IF id \in DOMAIN entries THEN id
                 ELSE IF name \in DOMAIN entries THEN name
                 ELSE "*"
          fallback == IF ctx.defaultRequireMention = Some(FALSE) THEN FALSE ELSE TRUE
          resolved == TheOne(inv[e].channelConfig).requireMention
      IN /\ resolved \in BOOLEAN
         /\ key \in DOMAIN entries /\ entries[key].requireMention = Some(TRUE)
              => resolved = TRUE
         /\ key \in DOMAIN entries /\ entries[key].requireMention = Some(FALSE)
              => resolved = FALSE
         /\ key \in DOMAIN entries /\ entries[key].requireMention = None
              => resolved = fallback
         /\ key \notin DOMAIN entries => resolved = fallback

\* the name entry's explicit false wins over the wildcard's true and over a
\* default of true
C12_Witness ==
  \E e \in Events :
    /\ Command(e).channel_id = "C1"
    /\ ctx.channelsConfig =
         Some(("general" :> EntryNoMention) @@ ("secret" :> EntryDenied) @@ ("*" :> EntryMention))
    /\ ctx.defaultRequireMention = Some(TRUE)
    /\ inv[e].channelConfig # None
    /\ TheOne(inv[e].channelConfig).requireMention = FALSE

\* C13: when the channels mapping has no key for the room (neither its id,
\* nor its name, nor "*"), be it absent, empty or about other channels, the
\* resolved config has allowed = true, and with defaultRequireMention unset
\* requireMention = true; allowed resolves to false only when the matched
\* entry sets allowed to false; and the room branch's channelAllowed is the
\* resolved flag.
C13_UnmatchedRoomDefaults ==
  \A e \in Events :
    inv[e].channelConfig # None =>
      LET entries == IF ctx.channelsConfig = None THEN EmptyMap
                     ELSE TheOne(ctx.channelsConfig)
          id == Command(e).channel_id
          name == ChannelDirectoryName(id)
          unmatched == DOMAIN entries \cap {id, name, "*"} = {}
          resolved == TheOne(inv[e].channelConfig)
      IN /\ unmatched => resolved.allowed = TRUE /\ resolved.users = None
         /\ unmatched /\ ctx.defaultRequireMention = None => resolved.requireMention = TRUE
         /\ resolved.allowed = FALSE =>
              \E k \in DOMAIN entries \cap {id, name, "*"} :
                /\ entries[k].allowed = Some(FALSE)
                /\ k = "*" => name \notin DOMAIN entries
                /\ k # id => id \notin DOMAIN entries
         /\ inv[e].gate # None =>
              TheOne(inv[e].gate).channelAllowed = resolved.allowed

\* a room the non-empty mapping does not mention, no default
C13_Witness ==
  \E e \in Events :
    /\ Command(e).channel_id = "C1"
    /\ ctx.channelsConfig = Some(("D1" :> EntryDenied) @@ ("random" :> EntryNoMention))
    /\ ctx.defaultRequireMention = None
    /\ inv[e].channelConfig = Some([allowed |-> TRUE, requireMention |-> TRUE, users |-> None])
    /\ inv[e].gate # None
    /\ TheOne(inv[e].gate).channelAllowed

\* C14: whenever the room branch asks the Access Policy Gate, its
\* channelAllowlistConfigured argument is true exactly when ctx.channelsConfig
\* has at least one key; the gate answers true under the "open" group policy
\* when no allow-list is configured, and false when an allow-list is
\* configured and the channel is not allowed in it, also under "open"; a room
\* the gate refuses is rejected and not dispatched.
C14_AccessPolicyGate ==
  \A e \in Events :
    /\ inv[e].gate # None <=> inv[e].channelConfig # None /\ ctx.useAccessGroups
    /\ inv[e].gate # None =>
         LET gate == TheOne(inv[e].gate)
             keys == IF ctx.channelsConfig = None THEN {}
                     ELSE DOMAIN TheOne(ctx.channelsConfig)
         IN /\ gate.groupPolicy = ctx.groupPolicy
            /\ gate.channelAllowlistConfigured <=> Cardinality(keys) >= 1
            /\ gate.groupPolicy = "open" /\ ~gate.channelAllowlistConfigured => gate.result
            /\ gate.channelAllowlistConfigured /\ ~gate.channelAllowed => ~gate.result
            /\ ~gate.result =>
                 /\ RejectedWith(e, MsgChannelNotAllowed)
                 /\ ~ReachedDispatch(e)

\* under the open policy a configured allow-list that denies the room makes
\* the gate answer false
C14_Witness ==
  \E e \in Events :
    /\ inv[e].gate =
         Some([groupPolicy |-> "open", channelAllowlistConfigured |-> TRUE,
               channelAllowed |-> FALSE, result |-> FALSE])
    /\ HasResponse(e, MsgChannelNotAllowed)
    /\ Terminated(e)

----------------------------------------------------------------------------
\* C15: in the DM branch the sender is permitted exactly when the effective
\* allow-list (ctx.allowFrom and the stored entries) holds "*", or an entry
\* equal to the sender's id letter for letter, or an entry equal to the
\* sender's directory name up to letter case; so an entry that differs from
\* the id only in case does not permit, one that differs from the name only in
\* case does; a sender that is not permitted is never dispatched.
C15_AllowListMatching ==
  \A e \in Events :
    inv[e].permitted # None =>
      LET list == ctx.allowFrom \o inv[e].storeAllowFrom
          id == Command(e).user_id
          name == UserDirectory(id)
          byWildcard == \E i \in DOMAIN list : list[i] = "*"
          byId == \E i \in DOMAIN list : list[i] = id
          byName == /\ name # Undefined
                    /\ \E i \in DOMAIN list : ToLower(list[i]) = ToLower(name)
          permitted == TheOne(inv[e].permitted)
      IN /\ isDirectMessage(inv[e])
         /\ permitted <=> byWildcard \/ byId \/ byName
         /\ ~permitted => ~ReachedDispatch(e)

\* the entry "u1" does not permit the sender U1
C15_Witness ==
  \E e \in Events :
    /\ Command(e).user_id = "U1"
    /\ ctx.allowFrom = <<"u1">>
    /\ inv[e].storeAllowFrom = <<>>
    /\ inv[e].permitted = Some(FALSE)
    /\ ctx.dmPolicy = "allowlist"
    /\ inv[e].responses = << [text |-> MsgNotAuthorized, code |-> 0, ok |-> TRUE] >>

----------------------------------------------------------------------------
\* the ways an acknowledged invocation ends
\* nothing was sent: a self-message, or a pairing request that existed
SilentDrop(e) ==
  /\ inv[e].pc = "done"
  /\ inv[e].responses = <<>>
  /\ inv[e].ackPayload = Undefined
  /\ ~ReachedDispatch(e)
  /\ \/ ctx.botUserId # "" /\ Command(e).user_id = ctx.botUserId
     \/ inv[e].pairing # None /\ ~TheOne(inv[e].pairing).created

\* one policy rejection reached the user and nothing else was sent
SingleRejection(e) ==
  /\ inv[e].pc = "done"
  /\ ~ReachedDispatch(e)
  /\ \/ inv[e].ackPayload = MsgMessageRequired /\ inv[e].responses = <<>>
     \/ /\ inv[e].ackPayload = Undefined
        /\ Len(inv[e].responses) = 1
        /\ inv[e].responses[1].text \in RejectionTexts \cup {MsgPairing}
        /\ inv[e].responses[1].ok

\* dispatch returned, the catch block did not run, and every reply, or the
\* empty-result message, reached the user
DispatchCompleted(e) ==
  /\ inv[e].pc = "done"
  /\ ~CatchRan(e)
  /\ inv[e].counts # None
  /\ inv[e].responses # <<>>
  /\ \A i \in DOMAIN inv[e].responses : inv[e].responses[i].ok
  /\ \/ \A i \in DOMAIN inv[e].responses : inv[e].responses[i].text = MsgReply
     \/ inv[e].responses = << [text |-> MsgEmptyResult, code |-> 0, ok |-> TRUE] >>

\* the catch block ran: the failure was logged and the generic failure
\* message is the last message of the invocation and reached the user
GenericFailure(e) ==
  /\ inv[e].pc = "done"
  /\ Called(e, "runtime.error")
  /\ inv[e].failed # {}
  /\ inv[e].responses # <<>>
  /\ \A i \in DOMAIN inv[e].responses :
       inv[e].responses[i].text = MsgFailure <=> i = Len(inv[e].responses)
  /\ inv[e].responses[Len(inv[e].responses)].ok

\* how many of the four hold
Outcomes(e) ==
  Cardinality({ k \in 1..4 :
    \/ k = 1 /\ SilentDrop(e)
    \/ k = 2 /\ SingleRejection(e)
    \/ k = 3 /\ DispatchCompleted(e)
    \/ k = 4 /\ GenericFailure(e) })

\* C16: when every awaited call settles, an invocation whose ack has settled
\* comes to its end, and at its end exactly one of these holds: nothing was
\* sent (self-message, or a pairing request that existed), one policy
\* rejection was sent and nothing else, dispatch returned and its replies or
\* the empty-result message were delivered, or the catch block ran and the
\* generic failure message was sent as the last message.
C16_TerminatesInOneOutcome ==
  /\ [](\A e \in Events : Terminated(e) /\ inv[e].ack = "done" => Outcomes(e) = 1)
  /\ \A e \in 1..NumEvents :
       (e \in Events /\ inv[e].ack = "done") ~> (e \in Events /\ Terminated(e))

----------------------------------------------------------------------------
\* C17: the checks are evaluated in the order empty prompt, self-message,
\* generic channel check, DM branch or room branch, per-user check: a check is
\* reached only after every earlier one passed, at most one rejection is
\* issued, it is the first message of the invocation, and once it is issued no
\* later check's collaborator is called.  So a command of the bot itself gets
\* no rejection and never reaches isChannelAllowed; a command rejected by
\* isChannelAllowed gets "This channel is not allowed." without the store, the
\* DM branch, the pairing flow or the room branch being touched; and a room
\* rejected by the room branch never gets the per-user rejection.
C17_ChecksInOrder ==
  \A e \in Events :
    LET r == inv[e]
        rejections == { i \in DOMAIN r.responses :
                          r.responses[i].text \in RejectionTexts \cup {MsgPairing} }
        selfMessage == ctx.botUserId # "" /\ Command(e).user_id = ctx.botUserId
        genericRejected == Issued(e, MsgChannelNotAllowed) /\ r.channelConfig = None
        roomRejected == Issued(e, MsgChannelNotAllowed) /\ r.channelConfig # None
    IN /\ \A name \in SlowCollaborators :
            Called(e, name) =>
              r.ack = "done" /\ r.ackPayload = Undefined /\ ~IsBlank(inbox[e].prompt)
                /\ ~selfMessage
       /\ Called(e, "isChannelAllowed") => Called(e, "resolveChannelName")
       /\ Called(e, "readChannelAllowFromStore") =>
            Called(e, "isChannelAllowed") /\ ~genericRejected
       /\ r.permitted # None \/ r.pairing # None \/ Issued(e, MsgDmDisabled)
            \/ Issued(e, MsgNotAuthorized) \/ HasResponse(e, MsgPairing) =>
              isDirectMessage(r) /\ Called(e, "readChannelAllowFromStore")
       /\ Called(e, "resolveSlackChannelConfig") =>
            isRoom(r) /\ Called(e, "readChannelAllowFromStore")
       /\ Issued(e, MsgNotAuthorizedHere) =>
            isRoom(r) /\ r.channelConfig # None /\ r.senderName # Undefined
       /\ ReachedDispatch(e) =>
            r.senderName # Undefined /\ rejections = {} /\ r.rejection = Undefined
       /\ r.rejection # Undefined =>
            /\ r.rejection \in RejectionTexts
            /\ r.pc # "reject" => rejections = {1} /\ r.responses[1].text = r.rejection
            /\ r.pc = "reject" => r.responses = <<>>
       /\ rejections \subseteq {1}
       /\ \A i \in DOMAIN r.responses :
            i > 1 /\ rejections # {} => r.responses[i].text = MsgFailure
       /\ (selfMessage \/ IsBlank(inbox[e].prompt)) => rejections = {}
       /\ genericRejected =>
            /\ r.calls \cap SlowCollaborators \subseteq {"resolveChannelName", "isChannelAllowed"}
            /\ r.pc # "reject" => rejections = {1}
            /\ r.permitted = None /\ r.pairing = None
       /\ roomRejected =>
            /\ ~Called(e, "resolveUserName")
            /\ r.senderName = Undefined
            /\ ~Issued(e, MsgNotAuthorizedHere)
       /\ Issued(e, MsgDmDisabled) => ~Called(e, "resolveUserName")
       /\ Issued(e, MsgNotAuthorized) =>
            ~Called(e, "upsertChannelPairingRequest") /\ r.senderName = Undefined

\* a direct message with DMs disabled, rejected by isChannelAllowed: the
\* channel rejection is all it gets
C17_Witness ==
  \E e \in Events :
    /\ Command(e).channel_id = "D1"
    /\ ~ctx.dmEnabled
    /\ Terminated(e)
    /\ inv[e].channelType = "im"
    /\ inv[e].responses = << [text |-> MsgChannelNotAllowed, code |-> 0, ok |-> TRUE] >>
    /\ ~Called(e, "readChannelAllowFromStore")

----------------------------------------------------------------------------
\* C18: an invocation calls ack at most once: with the "Message required."
\* payload for a blank prompt, without payload otherwise, never both and never
\* again on a later path, the catch block included; an invocation that has
\* started has called it exactly once, whether or not the call failed.
C18_AckAtMostOnce ==
  \A e \in Events :
    /\ Len(inv[e].acks) <= 1
    /\ inv[e].pc # "idle" => Len(inv[e].acks) = 1
    /\ inv[e].acks # <<>> =>
         /\ Called(e, "ack")
         /\ inv[e].acks[1] = inv[e].ackPayload
         /\ inv[e].acks[1] = MsgMessageRequired <=> IsBlank(inbox[e].prompt)
         /\ inv[e].acks[1] = Undefined <=> ~IsBlank(inbox[e].prompt)
    /\ Terminated(e) /\ inv[e].ack # "failed" =>
         inv[e].ack = "done" /\ Len(inv[e].acks) = 1

\* the catch block ran after a successful plain ack and did not call ack again
C18_Witness ==
  \E e \in Events :
    /\ Terminated(e)
    /\ inv[e].ack = "done"
    /\ CatchRan(e)
    /\ inv[e].acks = << Undefined >>

----------------------------------------------------------------------------
\* C19: a command whose resolved channel type is neither "im" nor a room type
\* (a group DM, or a type that is not known) never enters the DM branch or the
\* room branch and gets no rejection but the generic "This channel is not
\* allowed."; once isChannelAllowed has passed it, it gets no rejection at
\* all, whatever dmPolicy, allow-list, access-group policy and channels
\* mapping are: unless a collaborator fails it is dispatched, and its peer
\* kind is "group".
C19_OtherChannelTypesOnlyGenericChecks ==
  \A e \in Events :
    LET r == inv[e]
    IN Called(e, "resolveChannelName") /\ "resolveChannelName" \notin r.failed
         /\ r.channelType \notin {"im", "channel", "group"} =>
         /\ r.channelConfig = None /\ r.gate = None
         /\ r.permitted = None /\ r.pairing = None
         /\ ~Called(e, "resolveSlackChannelConfig")
         /\ ~Called(e, "upsertChannelPairingRequest")
         /\ \A i \in DOMAIN r.responses :
              r.responses[i].text \in {MsgChannelNotAllowed, MsgReply, MsgEmptyResult, MsgFailure}
         /\ r.rejection \in {Undefined, MsgChannelNotAllowed}
         /\ Called(e, "readChannelAllowFromStore") =>
              /\ ~Issued(e, MsgChannelNotAllowed)
              /\ r.pc \in {"sender", "route", "dispatch", "deliver", "empty_result",
                            "done", "catch", "thrown"}
              /\ Terminated(e) /\ ~CatchRan(e) =>
                   Called(e, "dispatchReplyWithDispatcher") /\ r.counts # None
              /\ CatchRan(e) \/ r.pc = "catch" =>
                   r.failed \cap {"resolveUserName", "resolveAgentRoute",
                                  "dispatchReplyWithDispatcher", "respond"} # {}
         /\ r.route # None =>
              /\ TheOne(r.route) = [kind |-> "group", id |-> Command(e).channel_id]
              /\ TheOne(r.ctxPayload).ChatType = "group"

\* a group DM dispatched although DMs are disabled and the group policy is
\* "disabled"
C19_Witness ==
  \E e \in Events :
    /\ Command(e).channel_id = "G1"
    /\ inv[e].channelType = "mpim"
    /\ ctx.dmPolicy = "disabled"
    /\ ctx.useAccessGroups /\ ctx.groupPolicy = "disabled"
    /\ inv[e].pc = "done"
    /\ inv[e].route = Some([kind |-> "group", id |-> "G1"])
    /\ inv[e].counts # None

----------------------------------------------------------------------------
\* C20: the commandAuthorized local is true at every point of every
\* invocation, and every context payload built for dispatch carries
\* CommandAuthorized = true, be the sender admitted by the allow-list
\* (permitted = true) or by no check at all (open DM policy, room, group DM,
\* unknown channel type).
C20_CommandAuthorizedAlwaysTrue ==
  \A e \in Events :
    /\ inv[e].commandAuthorized = TRUE
    /\ inv[e].ctxPayload # None => Called(e, "resolveAgentRoute")
    /\ Called(e, "dispatchReplyWithDispatcher") => inv[e].ctxPayload # None
    /\ inv[e].ctxPayload # None =>
         /\ TheOne(inv[e].ctxPayload).CommandAuthorized = TRUE
         /\ inv[e].permitted # Some(FALSE)

\* a direct message under the open policy: no allow-list was consulted and the
\* payload says authorized
C20_Witness ==
  \E e \in Events :
    /\ ctx.dmPolicy = "open"
    /\ inv[e].channelType = "im"
    /\ inv[e].permitted = None
    /\ Called(e, "dispatchReplyWithDispatcher")
    /\ TheOne(inv[e].ctxPayload).CommandAuthorized = TRUE

====
